---- MODULE Spec2Model ----
(***************************************************************************)
(* Model of scripts/get_version.py: one run of the script, from argument   *)
(* parsing to process exit.  A text is a sequence of tokens: the literal   *)
(* "#define", the three macro names, single whitespace characters, single  *)
(* decimal digits and other characters.  The regular expression of         *)
(* get_macro is modelled by a leftmost scan over that sequence.            *)
(***************************************************************************)
EXTENDS Integers, Sequences, FiniteSets

VARIABLES
    fmtArg,      \* the --format value on the command line ("" when absent)
    fileStatus,  \* what the file system holds at the --header path
    header,      \* the lines of the header file (each a token sequence)
    pc,          \* position of the run
    args_format, \* args.format after parse_args
    text,        \* local `text` of read_version_header
    lookups,     \* macro names get_macro has been called with, in call order
    major, minor, patch,   \* locals of main: <<>> while unassigned, else <<n>>
    version,     \* local `version` of main (a token sequence)
    stdout,      \* standard output, a token sequence
    exc,         \* the uncaught exception: <<>> or <<kind, message...>>
    exitStatus   \* process exit status: <<>> while running, else <<n>>

vars == <<fmtArg, fileStatus, header, pc, args_format, text, lookups,
          major, minor, patch, version, stdout, exc, exitStatus>>

\* Largest number of lines of a header file.
MaxLines == 4

HashDefine == "#define"
XF_VERSION_MAJOR == "XF_VERSION_MAJOR"
XF_VERSION_MINOR == "XF_VERSION_MINOR"
XF_VERSION_PATCH == "XF_VERSION_PATCH"
MacroNames == <<XF_VERSION_MAJOR, XF_VERSION_MINOR, XF_VERSION_PATCH>>

\* \s of the pattern
Whitespace == {" ", "\t", "\n"}
\* \d of the pattern, with the value int() gives each digit
DigitChars == <<"0", "1", "2", "3", "4", "5", "6", "7", "8", "9">>
Digits == {DigitChars[i] : i \in 1..Len(DigitChars)}
DigitVal(c) == (CHOOSE i \in 1..Len(DigitChars) : DigitChars[i] = c) - 1

\* argparse: choices=("plain", "github"), default="plain"
FormatChoices == {"plain", "github"}
FormatDefault == "plain"

\* Lines a header file is made of.
HeaderLines ==
    { <<HashDefine, " ", XF_VERSION_MAJOR, " ", "1">>,
      <<HashDefine, " ", XF_VERSION_MAJOR, " ", "0", "0", "7">>,
      <<HashDefine, "\t", XF_VERSION_MINOR, "\t", "0", "2">>,
      <<HashDefine, " ", XF_VERSION_PATCH, " ", " ", "3">>,
      <<"//", HashDefine, " ", XF_VERSION_PATCH, " ", "0", ";">>,
      <<HashDefine, " ", XF_VERSION_MINOR>>,
      <<"1", "0">> }

Headers == UNION {[1..n -> HeaderLines] : n \in 0..MaxLines}

\* The content of a file with these lines, each ended by a newline.
RECURSIVE FileText(_)
FileText(ls) ==
    IF ls = <<>> THEN <<>> ELSE Head(ls) \o <<"\n">> \o FileText(Tail(ls))

(***************************************************************************)
(* re.search(rf"#define\s+{name}\s+(\d+)", text)                           *)
(***************************************************************************)
\* First position >= i of t that holds no whitespace (Len(t)+1 if none).
RECURSIVE SkipWhitespace(_, _)
SkipWhitespace(t, i) ==
    IF i <= Len(t) /\ t[i] \in Whitespace THEN SkipWhitespace(t, i + 1) ELSE i

\* First position >= i of t that holds no digit (Len(t)+1 if none).
RECURSIVE SkipDigits(_, _)
SkipDigits(t, i) ==
    IF i <= Len(t) /\ t[i] \in Digits THEN SkipDigits(t, i + 1) ELSE i

\* Faulty variant of MatchAt: the group is (\d), one digit only.
MatchAtOneDigit(t, name, i) ==
    IF t[i] # HashDefine THEN <<>>
    ELSE LET j == SkipWhitespace(t, i + 1) IN
         IF j = i + 1 \/ j > Len(t) \/ t[j] # name THEN <<>>
         ELSE LET k == SkipWhitespace(t, j + 1) IN
              IF k = j + 1 \/ k > Len(t) \/ t[k] \notin Digits THEN <<>>
              ELSE <<t[k]>>

\* Faulty variant of MatchAt: the pattern has \w+ in place of the name.
MatchAtAnyName(t, name, i) ==
    IF t[i] # HashDefine THEN <<>>
    ELSE LET j == SkipWhitespace(t, i + 1) IN
         IF j = i + 1 \/ j > Len(t) \/ t[j] \notin {XF_VERSION_MAJOR, XF_VERSION_MINOR, XF_VERSION_PATCH}
         THEN <<>>
         ELSE LET k == SkipWhitespace(t, j + 1) IN
              IF k = j + 1 THEN <<>>
              ELSE SubSeq(t, k, SkipDigits(t, k) - 1)

\* group(1) of a match of the pattern starting at position i, <<>> if none.
MatchAt(t, name, i) ==
    IF t[i] # HashDefine THEN <<>>
    ELSE LET j == SkipWhitespace(t, i + 1) IN
         IF j = i + 1 \/ j > Len(t) \/ t[j] # name THEN <<>>
         ELSE LET k == SkipWhitespace(t, j + 1) IN
              IF k = j + 1 THEN <<>>
              ELSE SubSeq(t, k, SkipDigits(t, k) - 1)

\* Faulty variant of SearchFrom: the rightmost match, not the leftmost.
RECURSIVE SearchLastFrom(_, _, _)
SearchLastFrom(t, name, i) ==
    IF i > Len(t) THEN <<>>
    ELSE LET later == SearchLastFrom(t, name, i + 1) IN
         IF later # <<>> THEN later ELSE MatchAt(t, name, i)

\* group(1) of the leftmost match at a position >= i, <<>> if there is none.
RECURSIVE SearchFrom(_, _, _)
SearchFrom(t, name, i) ==
    IF i > Len(t) THEN <<>>
    ELSE IF MatchAt(t, name, i) # <<>> THEN MatchAt(t, name, i)
    ELSE SearchFrom(t, name, i + 1)

re_search(t, name) == SearchFrom(t, name, 1)

\* int(s) of a digit string
RECURSIVE int(_)
int(s) ==
    IF s = <<>> THEN 0
    ELSE int(SubSeq(s, 1, Len(s) - 1)) * 10 + DigitVal(s[Len(s)])

\* Faulty variant of str: f"{n:02d}", padded with a zero to two digits.
RECURSIVE str_02d(_)
str_02d(n) ==
    IF n < 10 THEN <<"0", DigitChars[n + 1]>>
    ELSE IF n < 100 THEN <<DigitChars[(n \div 10) + 1], DigitChars[(n % 10) + 1]>>
    ELSE str_02d(n \div 10) \o <<DigitChars[(n % 10) + 1]>>

\* str(n) of a non-negative integer, as f"{n}" renders it
RECURSIVE str(_)
str(n) ==
    IF n < 10 THEN <<DigitChars[n + 1]>>
    ELSE str(n \div 10) \o <<DigitChars[(n % 10) + 1]>>

(***************************************************************************)
(* The run                                                                 *)
(***************************************************************************)
Init ==
    /\ fmtArg \in {"", "plain", "github", "xml"}
    /\ fileStatus \in {"ok", "missing", "denied", "undecodable"}
    /\ header \in Headers
    /\ fileStatus # "ok" => header = <<>>
    /\ pc = "parse_args"
    /\ args_format = ""
    /\ text = <<>>
    /\ lookups = <<>>
    /\ major = <<>> /\ minor = <<>> /\ patch = <<>>
    /\ version = <<>>
    /\ stdout = <<>>
    /\ exc = <<>>
    /\ exitStatus = <<>>

\* Faulty variant of Raise: the exception is caught and main returns.
RaiseSwallowed(e) ==
    /\ exc' = e
    /\ pc' = "return"
    /\ UNCHANGED exitStatus

\* An exception nobody catches ends the process with status 1.
Raise(e) ==
    /\ exc' = e
    /\ exitStatus' = <<1>>
    /\ pc' = "done"

\* Faulty variant of ParseArgs: --format declared without choices.
ParseArgsWithoutChoices ==
    /\ pc = "parse_args"
    /\ args_format' = (IF fmtArg = "" THEN FormatDefault ELSE fmtArg)
    /\ pc' = "read_text"
    /\ UNCHANGED <<fmtArg, fileStatus, header, text, lookups,
                   major, minor, patch, version, stdout, exc, exitStatus>>

\* parser.parse_args(): a --format outside the choices ends the run with status 2.
ParseArgs ==
    /\ pc = "parse_args"
    /\ IF fmtArg = ""
       THEN /\ args_format' = FormatDefault
            /\ pc' = "read_text"
            /\ UNCHANGED <<exc, exitStatus>>
       ELSE IF fmtArg \in FormatChoices
       THEN /\ args_format' = fmtArg
            /\ pc' = "read_text"
            /\ UNCHANGED <<exc, exitStatus>>
       ELSE /\ exc' = <<"SystemExit", "invalid choice: ", fmtArg>>
            /\ exitStatus' = <<2>>
            /\ pc' = "done"
            /\ UNCHANGED args_format
    /\ UNCHANGED <<fmtArg, fileStatus, header, text, lookups,
                   major, minor, patch, version, stdout>>

\* Faulty variant of ReadText: a path that cannot be read counts as an empty file.
ReadTextOrEmpty ==
    /\ pc = "read_text"
    /\ text' = (IF fileStatus = "ok" THEN FileText(header) ELSE <<>>)
    /\ pc' = "major"
    /\ UNCHANGED <<fmtArg, fileStatus, header, args_format, lookups,
                   major, minor, patch, version, stdout, exc, exitStatus>>

\* text = path.read_text(encoding="utf-8")
ReadText ==
    /\ pc = "read_text"
    /\ IF fileStatus = "ok"
       THEN /\ text' = FileText(header)
            /\ pc' = "major"
            /\ UNCHANGED <<exc, exitStatus>>
       ELSE /\ Raise(<<CASE fileStatus = "missing" -> "FileNotFoundError"
                         [] fileStatus = "denied" -> "PermissionError"
                         [] OTHER -> "UnicodeDecodeError">>)
            /\ UNCHANGED text
    /\ UNCHANGED <<fmtArg, fileStatus, header, args_format, lookups,
                   major, minor, patch, version, stdout>>

\* Faulty variant of get_macro: a macro that is not found counts as 0.
get_macro_or_zero(t, name) ==
    LET match == re_search(t, name) IN
    IF match = <<>> THEN <<0>> ELSE <<int(match)>>

\* get_macro(name) over the enclosing local `text` (here t): <<>> when
\* re.search finds no match (the ValueError case), else <<int(match.group(1))>>.
get_macro(t, name) ==
    LET match == re_search(t, name) IN
    IF match = <<>> THEN <<>> ELSE <<int(match)>>

\* raise ValueError(f"Missing macro: {name}")
MissingMacro(name) == <<"ValueError", "Missing macro: ", name>>

\* major = get_macro("XF_VERSION_MAJOR")
GetMajor ==
    /\ pc = "major"
    /\ lookups' = Append(lookups, XF_VERSION_MAJOR)
    /\ IF get_macro(text, XF_VERSION_MAJOR) = <<>>
       THEN /\ Raise(MissingMacro(XF_VERSION_MAJOR))
            /\ UNCHANGED major
       ELSE /\ major' = get_macro(text, XF_VERSION_MAJOR)
            /\ pc' = "minor"
            /\ UNCHANGED <<exc, exitStatus>>
    /\ UNCHANGED <<fmtArg, fileStatus, header, args_format, text,
                   minor, patch, version, stdout>>

\* Faulty variant of GetMinor: a missing minor is taken as 0 and the read goes on.
GetMinorOrZero ==
    /\ pc = "minor"
    /\ lookups' = Append(lookups, XF_VERSION_MINOR)
    /\ minor' = (IF get_macro(text, XF_VERSION_MINOR) = <<>>
                 THEN <<0>> ELSE get_macro(text, XF_VERSION_MINOR))
    /\ pc' = "patch"
    /\ UNCHANGED <<fmtArg, fileStatus, header, args_format, text,
                   major, patch, version, stdout, exc, exitStatus>>

\* minor = get_macro("XF_VERSION_MINOR")
GetMinor ==
    /\ pc = "minor"
    /\ lookups' = Append(lookups, XF_VERSION_MINOR)
    /\ IF get_macro(text, XF_VERSION_MINOR) = <<>>
       THEN /\ Raise(MissingMacro(XF_VERSION_MINOR))
            /\ UNCHANGED minor
       ELSE /\ minor' = get_macro(text, XF_VERSION_MINOR)
            /\ pc' = "patch"
            /\ UNCHANGED <<exc, exitStatus>>
    /\ UNCHANGED <<fmtArg, fileStatus, header, args_format, text,
                   major, patch, version, stdout>>

\* patch = get_macro("XF_VERSION_PATCH"); return major, minor, patch
GetPatch ==
    /\ pc = "patch"
    /\ lookups' = Append(lookups, XF_VERSION_PATCH)
    /\ IF get_macro(text, XF_VERSION_PATCH) = <<>>
       THEN /\ Raise(MissingMacro(XF_VERSION_PATCH))
            /\ UNCHANGED patch
       ELSE /\ patch' = get_macro(text, XF_VERSION_PATCH)
            /\ pc' = "format"
            /\ UNCHANGED <<exc, exitStatus>>
    /\ UNCHANGED <<fmtArg, fileStatus, header, args_format, text,
                   major, minor, version, stdout>>

\* f"{major}.{minor}.{patch}"
VersionString(a, b, c) == str(a) \o <<".">> \o str(b) \o <<".">> \o str(c)

\* version = f"{major}.{minor}.{patch}"
Format ==
    /\ pc = "format"
    /\ version' = VersionString(major[1], minor[1], patch[1])
    /\ pc' = "print"
    /\ UNCHANGED <<fmtArg, fileStatus, header, args_format, text, lookups,
                   major, minor, patch, stdout, exc, exitStatus>>

\* print(s): s and a newline go to standard output
print(out, s) == out \o s \o <<"\n">>

\* if args.format == "github": print(f"APP_VERSION={version}") ...
\* else: print(version)
PrintVersion ==
    /\ pc = "print"
    /\ IF args_format = "github"
       THEN /\ stdout' = print(stdout, <<"APP_VERSION=">> \o version)
            /\ pc' = "print_tag"
       ELSE /\ stdout' = print(stdout, version)
            /\ pc' = "return"
    /\ UNCHANGED <<fmtArg, fileStatus, header, args_format, text, lookups,
                   major, minor, patch, version, exc, exitStatus>>

\* Faulty variant of PrintTag: the tag lacks its v.
PrintTagWithoutV ==
    /\ pc = "print_tag"
    /\ stdout' = print(stdout, <<"APP_VERSION_TAG=">> \o version)
    /\ pc' = "return"
    /\ UNCHANGED <<fmtArg, fileStatus, header, args_format, text, lookups,
                   major, minor, patch, version, exc, exitStatus>>

\* print(f"APP_VERSION_TAG=v{version}")
PrintTag ==
    /\ pc = "print_tag"
    /\ stdout' = print(stdout, <<"APP_VERSION_TAG=v">> \o version)
    /\ pc' = "return"
    /\ UNCHANGED <<fmtArg, fileStatus, header, args_format, text, lookups,
                   major, minor, patch, version, exc, exitStatus>>

\* return 0; raise SystemExit(main())
Return ==
    /\ pc = "return"
    /\ exitStatus' = <<0>>
    /\ pc' = "done"
    /\ UNCHANGED <<fmtArg, fileStatus, header, args_format, text, lookups,
                   major, minor, patch, version, stdout, exc>>

Next ==
    \/ ParseArgs
    \/ ReadText
    \/ GetMajor
    \/ GetMinor
    \/ GetPatch
    \/ Format
    \/ PrintVersion
    \/ PrintTag
    \/ Return

Spec == Init /\ [][Next]_vars

(***************************************************************************)
(* Vocabulary of the properties, stated on the header text itself and not  *)
(* through the scan above.                                                 *)
(***************************************************************************)
Names == {MacroNames[i] : i \in 1..Len(MacroNames)}

\* Position k holds the first digit of an occurrence of the pattern
\* "#define, whitespace, name, whitespace, digits" that starts at position i.
OccursAt(t, name, i, k) ==
    /\ t[i] = HashDefine
    /\ t[k] \in Digits
    /\ \E j \in (i + 2)..(k - 2) :
         /\ t[j] = name
         /\ \A x \in ((i + 1)..(j - 1)) \cup ((j + 1)..(k - 1)) : t[x] \in Whitespace

\* Start positions of the occurrences of the pattern for name in t.
Occurrences(t, name) ==
    {i \in 1..Len(t) :
        t[i] = HashDefine /\ \E k \in (i + 4)..Len(t) : OccursAt(t, name, i, k)}

Defined(t, name) == Occurrences(t, name) # {}

\* Decimal value of a digit string, most significant digit first.
RECURSIVE Horner(_, _)
Horner(ds, acc) ==
    IF ds = <<>> THEN acc ELSE Horner(Tail(ds), acc * 10 + DigitVal(Head(ds)))

\* Last position of the maximal run of digits that contains position k.
RunEnd(t, k) ==
    CHOOSE e \in k..Len(t) :
        /\ \A x \in k..e : t[x] \in Digits
        /\ e = Len(t) \/ t[e + 1] \notin Digits

\* Position of the first digit of the first occurrence for name in t.
FirstDigitsAt(t, name) ==
    LET i == CHOOSE m \in Occurrences(t, name) :
                 \A n \in Occurrences(t, name) : m <= n
    IN CHOOSE k \in (i + 4)..Len(t) : OccursAt(t, name, i, k)

\* The number the first occurrence for name in t defines.
FirstValue(t, name) ==
    LET k == FirstDigitsAt(t, name) IN Horner(SubSeq(t, k, RunEnd(t, k)), 0)

\* The decimal numeral of n: no leading zero, and its value is n.
Numerals == {<<d>> : d \in Digits} \cup
            {<<d, e>> : d \in Digits \ {"0"}, e \in Digits}
Numeral(n) == CHOOSE ds \in Numerals : Horner(ds, 0) = n

\* "a.b.c" for the values the header text defines.
Dotted(t) ==
    Numeral(FirstValue(t, XF_VERSION_MAJOR)) \o <<".">> \o
    Numeral(FirstValue(t, XF_VERSION_MINOR)) \o <<".">> \o
    Numeral(FirstValue(t, XF_VERSION_PATCH))

AllDefined(t) == \A name \in Names : Defined(t, name)
Readable == fileStatus = "ok"
FormatGiven(f) == fmtArg = f \/ (f = FormatDefault /\ fmtArg = "")

\* C1: when the file is readable and its text defines all three macros with
\* the values (a, b, c), a run with format plain ends with exactly the line
\* "a.b.c" and a newline on standard output, and with exit status 0.
PlainOutputIsDottedVersion ==
    (pc = "done" /\ Readable /\ FormatGiven("plain") /\ AllDefined(FileText(header)))
        => /\ stdout = Dotted(FileText(header)) \o <<"\n">>
           /\ exitStatus = <<0>>

PlainOutputWitness ==
    /\ pc = "done" /\ Readable /\ fmtArg = "plain" /\ AllDefined(FileText(header))
    /\ stdout = <<"7", ".", "1", "0", ".", "3", "\n">>
    /\ exitStatus = <<0>>

\* C2: when the file is readable and its text defines all three macros, a run
\* with format github ends with exactly two lines on standard output,
\* "APP_VERSION=a.b.c" and then "APP_VERSION_TAG=va.b.c", both with the same
\* version string, and nothing else.
GithubOutputIsTwoAssignments ==
    (pc = "done" /\ Readable /\ FormatGiven("github") /\ AllDefined(FileText(header)))
        => stdout = <<"APP_VERSION=">> \o Dotted(FileText(header)) \o <<"\n">>
                    \o <<"APP_VERSION_TAG=v">> \o Dotted(FileText(header)) \o <<"\n">>

GithubOutputWitness ==
    /\ pc = "done" /\ Readable /\ fmtArg = "github"
    /\ stdout = <<"APP_VERSION=", "1", ".", "2", ".", "0", "\n",
                  "APP_VERSION_TAG=v", "1", ".", "2", ".", "0", "\n">>

FormatAccepted == fmtArg = "" \/ fmtArg \in FormatChoices
SomeUndefined(t) == \E name \in Names : ~Defined(t, name)

\* C3: when the text of a readable header has no occurrence of the pattern
\* for at least one of the three macros, the run ends with the missing-macro
\* error, whose message carries the name of a macro that has no occurrence in
\* the text, and the exit status is not 0.
MissingMacroFails ==
    (pc = "done" /\ Readable /\ FormatAccepted /\ SomeUndefined(FileText(header)))
        => /\ Len(exc) = 3
           /\ exc[1] = "ValueError"
           /\ exc[2] = "Missing macro: "
           /\ exc[3] \in Names
           /\ ~Defined(FileText(header), exc[3])
           /\ exitStatus # <<>>
           /\ exitStatus # <<0>>

MissingMacroWitness ==
    /\ pc = "done" /\ Readable /\ FormatAccepted
    /\ Defined(FileText(header), XF_VERSION_MAJOR)
    /\ Defined(FileText(header), XF_VERSION_MINOR)
    /\ ~Defined(FileText(header), XF_VERSION_PATCH)
    /\ exc = <<"ValueError", "Missing macro: ", XF_VERSION_PATCH>>
    /\ exitStatus = <<1>>

\* The exceptions of the OSError family that read_text raises.
IOErrors == {"FileNotFoundError", "PermissionError"}

\* C4: when the header path does not exist or may not be read, no macro is
\* ever looked up and nothing is ever written to standard output, and the run
\* ends with the I/O error uncaught and a non-zero exit status.
UnreadablePathFails ==
    (FormatAccepted /\ fileStatus \in {"missing", "denied"})
        => /\ lookups = <<>>
           /\ stdout = <<>>
           /\ text = <<>>
           /\ pc \in {"parse_args", "read_text", "done"}
           /\ pc = "done" => /\ Len(exc) = 1
                             /\ exc[1] \in IOErrors
                             /\ exitStatus # <<>>
                             /\ exitStatus # <<0>>

UnreadablePathWitness ==
    /\ pc = "done" /\ fileStatus = "missing" /\ fmtArg = "github"
    /\ exc = <<"FileNotFoundError">>
    /\ exitStatus = <<1>>

\* C7: with a format selector other than plain or github the run ends in
\* parse_args: the header is never read, no macro is looked up, no version is
\* formatted, nothing is written to standard output, and the exit status is
\* not 0, whatever the header holds.
InvalidFormatRejected ==
    ~FormatAccepted
        => /\ pc \in {"parse_args", "done"}
           /\ args_format = ""
           /\ text = <<>>
           /\ lookups = <<>>
           /\ version = <<>>
           /\ stdout = <<>>
           /\ pc = "done" => (exitStatus # <<>> /\ exitStatus # <<0>>)

InvalidFormatWitness ==
    /\ pc = "done" /\ fmtArg = "xml" /\ Readable
    /\ AllDefined(FileText(header))
    /\ exitStatus = <<2>>
    /\ stdout = <<>>

\* The first name, in the order major, minor, patch, that the text does not
\* define, and the names up to and including it.
FirstUndefined(t) ==
    CHOOSE i \in 1..Len(MacroNames) :
        /\ ~Defined(t, MacroNames[i])
        /\ \A j \in 1..(i - 1) : Defined(t, MacroNames[j])

\* C10: when the text of a readable header leaves macros undefined, the error
\* names the first undefined one in the order major, minor, patch, wherever
\* the macros stand in the file, and the macros after it are not looked up.
FirstMissingMacroIsReported ==
    (pc = "done" /\ Readable /\ FormatAccepted /\ SomeUndefined(FileText(header)))
        => LET i == FirstUndefined(FileText(header)) IN
           /\ exc = <<"ValueError", "Missing macro: ", MacroNames[i]>>
           /\ lookups = SubSeq(MacroNames, 1, i)

FirstMissingMacroWitness ==
    /\ pc = "done" /\ Readable /\ FormatAccepted
    /\ Len(header) >= 2
    /\ Occurrences(Head(header) \o <<"\n">>, XF_VERSION_PATCH) # {}
    /\ Defined(FileText(header), XF_VERSION_MAJOR)
    /\ ~Defined(FileText(header), XF_VERSION_MINOR)
    /\ exc = <<"ValueError", "Missing macro: ", XF_VERSION_MINOR>>
    /\ lookups = <<XF_VERSION_MAJOR, XF_VERSION_MINOR>>

\* The steps of a run, in program order.
PcOrder == <<"parse_args", "read_text", "major", "minor", "patch",
             "format", "print", "print_tag", "return", "done">>
Rank(p) == CHOOSE i \in 1..Len(PcOrder) : PcOrder[i] = p
Newlines(out) == Cardinality({i \in 1..Len(out) : out[i] = "\n"})

\* C5: a run goes through its steps in program order with no step taken
\* twice; standard output is written only after all three macros have been
\* extracted and the version formatted; a failure leads directly to the exit,
\* with nothing formatted or printed; and a finished run has printed either
\* nothing or all its lines (two with format github, one with plain).
RunIsOnePassWithoutPartialOutput ==
    /\ [](stdout # <<>> =>
            /\ lookups = MacroNames
            /\ major # <<>> /\ minor # <<>> /\ patch # <<>>
            /\ version # <<>>
            /\ exc = <<>>)
    /\ [](pc = "done" =>
            \/ stdout = <<>> /\ exitStatus # <<0>>
            \/ Newlines(stdout) = (IF args_format = "github" THEN 2 ELSE 1))
    /\ [][Rank(pc') > Rank(pc)]_vars
    /\ [][exc' # <<>> => (pc' = "done" /\ version' = <<>> /\ stdout' = <<>>)]_vars

OnePassWitness ==
    /\ pc = "done" /\ args_format = "github"
    /\ Newlines(stdout) = 2
    /\ lookups = MacroNames

\* Indices of the lines of h that hold an occurrence of the pattern by themselves.
DefineLines(h) ==
    {n \in 1..Len(h) : \E name \in Names : Defined(h[n] \o <<"\n">>, name)}

\* h with the lines at the indices D rearranged by f.
Permuted(h, D, f) == [n \in 1..Len(h) |-> IF n \in D THEN h[f[n]] ELSE h[n]]
Bijections(D) == {f \in [D -> D] : \A x, y \in D : f[x] = f[y] => x = y}

\* What read_version_header yields on the text t.
Triple(t) ==
    <<get_macro(t, XF_VERSION_MAJOR), get_macro(t, XF_VERSION_MINOR),
      get_macro(t, XF_VERSION_PATCH)>>

OneDefineLineEach(h) ==
    /\ Cardinality(DefineLines(h)) = 3
    /\ \A name \in Names : Cardinality(Occurrences(FileText(h), name)) = 1

\* C6: when the header holds exactly one #define line for each of the three
\* macros, among other lines, the triple extracted by the run is the triple
\* read from the header with those three lines in any other order.
ExtractionIsOrderIndependent ==
    (pc = "format" /\ OneDefineLineEach(header))
        => \A f \in Bijections(DefineLines(header)) :
             Triple(FileText(Permuted(header, DefineLines(header), f)))
                 = <<major, minor, patch>>

OrderIndependentWitness ==
    /\ pc = "format" /\ OneDefineLineEach(header)
    /\ Len(header) = 4
    /\ DefineLines(header) = {1, 3, 4}
    /\ <<major, minor, patch>> = << <<7>>, <<2>>, <<3>> >>

\* C8: a macro value is the decimal value of its digits, so "007" yields 7,
\* the header with the values 1, 02 and 3 prints "1.2.3" in plain format, and
\* no number on standard output has a leading zero.
LeadingZerosAreDropped ==
    /\ (pc = "minor" /\ LET k == FirstDigitsAt(text, XF_VERSION_MAJOR) IN
                        SubSeq(text, k, RunEnd(text, k)) = <<"0", "0", "7">>)
           => major = <<7>>
    /\ (/\ pc = "done" /\ Readable /\ FormatGiven("plain")
        /\ header = << <<HashDefine, " ", XF_VERSION_MAJOR, " ", "1">>,
                       <<HashDefine, "\t", XF_VERSION_MINOR, "\t", "0", "2">>,
                       <<HashDefine, " ", XF_VERSION_PATCH, " ", " ", "3">> >>)
           => stdout = <<"1", ".", "2", ".", "3", "\n">>
    /\ \A i \in 1..(Len(stdout) - 1) :
           (stdout[i] = "0" /\ stdout[i + 1] \in Digits)
               => (i > 1 /\ stdout[i - 1] \in Digits)

LeadingZerosWitness ==
    /\ pc = "done" /\ fmtArg = ""
    /\ stdout = <<"1", ".", "2", ".", "3", "\n">>
    /\ FirstValue(text, XF_VERSION_MINOR) = 2
    /\ text[FirstDigitsAt(text, XF_VERSION_MINOR)] = "0"

\* Index of the line of h that holds position p of FileText(h).
LineOf(h, p) ==
    CHOOSE n \in 1..Len(h) :
        /\ p <= Len(FileText(SubSeq(h, 1, n)))
        /\ p > Len(FileText(SubSeq(h, 1, n - 1)))

\* C9: each extracted value is the one of the first occurrence of the pattern
\* for its own macro in the text, and it is what the lookup yields on the
\* header cut after any line from the one of that occurrence on: what
\* follows the first occurrence, later definitions of the macro included,
\* does not change it.
FirstOccurrenceWins ==
    pc = "format" =>
        \A i \in 1..Len(MacroNames) :
            LET name == MacroNames[i]
                got  == <<major, minor, patch>>[i]
                last == LineOf(header, RunEnd(text, FirstDigitsAt(text, name)))
            IN /\ got = <<FirstValue(text, name)>>
               /\ \A n \in last..Len(header) :
                      get_macro(FileText(SubSeq(header, 1, n)), name) = got

FirstOccurrenceWitness ==
    /\ pc = "format"
    /\ Cardinality(Occurrences(text, XF_VERSION_MAJOR)) = 2
    /\ header[1] = <<HashDefine, " ", XF_VERSION_MAJOR, " ", "1">>
    /\ header[Len(header)] = <<HashDefine, " ", XF_VERSION_MAJOR, " ", "0", "0", "7">>
    /\ major = <<1>>
====
